---------------------------- MODULE Spec2Model ----------------------------
(***************************************************************************)
(* A model of the chess rules engine of app.js: the board, pseudo-legal    *)
(* and legal move generation, attack detection, move application, game     *)
(* status, the click handler, undo and new game.                           *)
(***************************************************************************)
EXTENDS Integers, Sequences, FiniteSets, TLC

VARIABLES
  board,        \* board[r][c]: the piece on row r (0 = rank 8), column c, or NoPiece
  turn,         \* "w" or "b"
  selected,     \* the selected square, or NoSquare
  legal,        \* the legal moves computed for the selected square
  lastDouble,   \* the pawn that just made a double push, or NoDouble
  gameOver,     \* set by render()
  captured,     \* [byWhite, byBlack]: the icons of the captured pieces
  history,      \* the stack of snapshots
  movesEl,      \* the text of each <li> of the move list
  turnEl,       \* the text of the status line
  undoDisabled, \* undoBtn.disabled
  game,         \* the user: which scripted game is being played
  outcome       \* the branch the last event handler returned through

vars == <<board, turn, selected, legal, lastDouble, gameOver, captured,
          history, movesEl, turnEl, undoDisabled, game, outcome>>

R == 0..7

\* null, for a square of the board
NoPiece == [t |-> "-", c |-> "-", moved |-> FALSE]
\* null, for selected
NoSquare == [r |-> -1, c |-> -1]
\* null, for lastDouble
NoDouble == [r |-> -1, c |-> -1, dir |-> 0]

Piece(t, c) == [t |-> t, c |-> c, moved |-> FALSE]

\* UNI[color][type]: the glyph, by its code point
UNI(c, t) ==
  IF c = "w"
  THEN CASE t = "K" -> "U+2654" [] t = "Q" -> "U+2655" [] t = "R" -> "U+2656"
         [] t = "B" -> "U+2657" [] t = "N" -> "U+2658" [] t = "P" -> "U+2659"
  ELSE CASE t = "K" -> "U+265A" [] t = "Q" -> "U+265B" [] t = "R" -> "U+265C"
         [] t = "B" -> "U+265D" [] t = "N" -> "U+265E" [] t = "P" -> "U+265F"

\* initialFEN, one string per character of each row
initialFEN ==
  << <<"r","n","b","q","k","b","n","r">>,
     <<"p","p","p","p","p","p","p","p">>,
     <<"8">>, <<"8">>, <<"8">>, <<"8">>,
     <<"P","P","P","P","P","P","P","P">>,
     <<"R","N","B","Q","K","B","N","R">> >>

isDigit(ch) == ch \in {"1","2","3","4","5","6","7","8"}
digitValue(ch) ==
  CASE ch = "1" -> 1 [] ch = "2" -> 2 [] ch = "3" -> 3 [] ch = "4" -> 4
    [] ch = "5" -> 5 [] ch = "6" -> 6 [] ch = "7" -> 7 [] ch = "8" -> 8
toUpperCase(ch) ==
  CASE ch = "r" -> "R" [] ch = "n" -> "N" [] ch = "b" -> "B"
    [] ch = "q" -> "Q" [] ch = "k" -> "K" [] ch = "p" -> "P"
    [] OTHER -> ch

\* loadFEN's inner loop over one row: the row after reading characters i.. of
\* `chars`, the next file being `file`
RECURSIVE fenRow(_, _, _, _)
fenRow(chars, i, file, row) ==
  IF i > Len(chars) THEN row
  ELSE LET ch == chars[i] IN
       IF isDigit(ch) THEN fenRow(chars, i + 1, file + digitValue(ch), row)
       ELSE fenRow(chars, i + 1, file + 1,
                   [row EXCEPT ![file] =
                      Piece(toUpperCase(ch), IF ch = toUpperCase(ch) THEN "w" ELSE "b")])

\* loadFEN: the board it builds
loadFEN(fen) ==
  [r \in R |-> fenRow(fen[r + 1], 1, 0, [c \in R |-> NoPiece])]

(* ---------- Utilities ---------- *)
inBounds(r, c) == r >= 0 /\ r < 8 /\ c >= 0 /\ c < 8
at(b, r, c) == IF inBounds(r, c) THEN b[r][c] ELSE NoPiece
empty(b, r, c) == inBounds(r, c) /\ b[r][c] = NoPiece
ally(b, r, c, clr) == inBounds(r, c) /\ b[r][c] # NoPiece /\ b[r][c].c = clr
enemy(b, r, c, clr) == inBounds(r, c) /\ b[r][c] # NoPiece /\ b[r][c].c # clr
\* m.some(x => x.r===r && x.c===c)
some(m, r, c) == \E i \in DOMAIN m : m[i].r = r /\ m[i].c = c
fileLetter(c) == <<"a","b","c","d","e","f","g","h">>[c + 1]
algebra(r, c) == fileLetter(c) \o ToString(8 - r)
other(color) == IF color = "w" THEN "b" ELSE "w"
abs(x) == IF x < 0 THEN -x ELSE x

\* a move descriptor; the fields the code leaves out are FALSE / "-"
Mv(r, c) == [r |-> r, c |-> c, cap |-> FALSE, double |-> FALSE, ep |-> FALSE, castle |-> "-"]
MvCap(r, c, cap) == [Mv(r, c) EXCEPT !.cap = cap]

(* ---------- Attack / Check detection ---------- *)
kingPos(b, color) ==
  IF \E r \in R, c \in R : b[r][c].t = "K" /\ b[r][c].c = color
  THEN LET r == CHOOSE r \in R : (\E c \in R : b[r][c].t = "K" /\ b[r][c].c = color)
                                 /\ \A r2 \in 0..(r - 1), c2 \in R :
                                      ~(b[r2][c2].t = "K" /\ b[r2][c2].c = color)
           c == CHOOSE c \in R : b[r][c].t = "K" /\ b[r][c].c = color
                                 /\ \A c2 \in 0..(c - 1) :
                                      ~(b[r][c2].t = "K" /\ b[r][c2].c = color)
       IN [r |-> r, c |-> c]
  ELSE NoSquare

\* one direction of rays(): from (rr,cc) on, until a piece or the edge
RECURSIVE ray(_, _, _, _, _, _)
ray(b, color, rr, cc, dr, dc) ==
  IF ~inBounds(rr, cc) THEN << >>
  ELSE IF b[rr][cc] # NoPiece
       THEN IF b[rr][cc].c # color THEN << MvCap(rr, cc, TRUE) >> ELSE << >>
       ELSE << Mv(rr, cc) >> \o ray(b, color, rr + dr, cc + dc, dr, dc)

RECURSIVE rays(_, _, _, _, _, _)
rays(b, color, r, c, dirs, i) ==
  IF i > Len(dirs) THEN << >>
  ELSE ray(b, color, r + dirs[i][1], c + dirs[i][2], dirs[i][1], dirs[i][2])
       \o rays(b, color, r, c, dirs, i + 1)

bishopDirs == << <<1,1>>, <<1,-1>>, <<-1,1>>, <<-1,-1>> >>
rookDirs == << <<1,0>>, <<-1,0>>, <<0,1>>, <<0,-1>> >>
queenDirs == bishopDirs \o rookDirs
knightDeltas == << <<-2,-1>>, <<-2,1>>, <<-1,-2>>, <<-1,2>>, <<1,-2>>, <<1,2>>, <<2,-1>>, <<2,1>> >>
kingDeltas == << <<-1,-1>>, <<-1,0>>, <<-1,1>>, <<0,-1>>, <<0,1>>, <<1,-1>>, <<1,0>>, <<1,1>> >>

\* the knight's and the king's loop over fixed offsets
RECURSIVE steps(_, _, _, _, _, _)
steps(b, color, r, c, deltas, i) ==
  IF i > Len(deltas) THEN << >>
  ELSE LET rr == r + deltas[i][1]
           cc == c + deltas[i][2]
       IN (IF inBounds(rr, cc) /\ ~ally(b, rr, cc, color)
           THEN << MvCap(rr, cc, enemy(b, rr, cc, color)) >> ELSE << >>)
          \o steps(b, color, r, c, deltas, i + 1)

\* genPseudo's pawn branch
pawnMoves(b, ld, r, c, color, forAttack) ==
  LET dir == IF color = "w" THEN -1 ELSE 1
      start == IF color = "w" THEN 6 ELSE 1
      push == IF ~forAttack /\ empty(b, r + dir, c)
              THEN << Mv(r + dir, c) >>
                   \o (IF r = start /\ empty(b, r + 2 * dir, c)
                       THEN << [Mv(r + 2 * dir, c) EXCEPT !.double = TRUE] >> ELSE << >>)
              ELSE << >>
      capL == IF enemy(b, r + dir, c - 1, color) THEN << MvCap(r + dir, c - 1, TRUE) >> ELSE << >>
      capR == IF enemy(b, r + dir, c + 1, color) THEN << MvCap(r + dir, c + 1, TRUE) >> ELSE << >>
      ep == IF ld # NoDouble /\ ld.r = r /\ abs(ld.c - c) = 1
               /\ r = (IF color = "w" THEN 3 ELSE 4)
            THEN << [MvCap(r + dir, ld.c, TRUE) EXCEPT !.ep = TRUE] >> ELSE << >>
  IN push \o capL \o capR \o ep

RECURSIVE genPseudo(_, _, _, _, _)

attacksSquare(b, ld, color, r, c) ==
  \E rr \in R, cc \in R :
     /\ b[rr][cc] # NoPiece
     /\ b[rr][cc].c = color
     /\ some(genPseudo(b, ld, rr, cc, TRUE), r, c)

inCheck(b, ld, color) ==
  LET kp == kingPos(b, color)
  IN IF kp # NoSquare THEN attacksSquare(b, ld, other(color), kp.r, kp.c) ELSE FALSE

canCastle(b, ld, color, side) ==
  LET row == IF color = "w" THEN 7 ELSE 0
      kC == 4
      rC == IF side = "k" THEN 7 ELSE 0
      step == IF side = "k" THEN 1 ELSE -1
      rook == at(b, row, rC)
      king == at(b, row, kC)
      \* c = kC+step; c !== rC; c += step
      between == IF side = "k" THEN (kC + 1)..(rC - 1) ELSE (rC + 1)..(kC - 1)
      \* c = kC; c !== kC+2*step; c += step
      transit == {kC, kC + step}
  IN IF king = NoPiece \/ rook = NoPiece THEN FALSE
     ELSE IF king.t # "K" \/ rook.t # "R" \/ king.moved \/ rook.moved THEN FALSE
     ELSE IF \E c \in between : ~empty(b, row, c) THEN FALSE
     ELSE IF \E c \in transit : attacksSquare(b, ld, other(color), row, c) THEN FALSE
     ELSE TRUE

genPseudo(b, ld, r, c, forAttack) ==
  LET p == at(b, r, c) IN
  IF p = NoPiece THEN << >>
  ELSE LET color == p.c
           type == p.t
       IN CASE type = "P" -> pawnMoves(b, ld, r, c, color, forAttack)
            [] type = "N" -> steps(b, color, r, c, knightDeltas, 1)
            [] type = "B" -> rays(b, color, r, c, bishopDirs, 1)
            [] type = "R" -> rays(b, color, r, c, rookDirs, 1)
            [] type = "Q" -> rays(b, color, r, c, queenDirs, 1)
            [] type = "K" ->
                 steps(b, color, r, c, kingDeltas, 1)
                 \o (IF ~forAttack /\ ~p.moved /\ ~inCheck(b, ld, color)
                     THEN (IF canCastle(b, ld, color, "k")
                           THEN << [Mv(r, c + 2) EXCEPT !.castle = "k"] >> ELSE << >>)
                          \o (IF canCastle(b, ld, color, "q")
                              THEN << [Mv(r, c - 2) EXCEPT !.castle = "q"] >> ELSE << >>)
                     ELSE << >>)


(* ---------- Snapshots ---------- *)
\* The session: the globals that snapshot() copies and applyMove() changes.
Session(b, t, sel, leg, ld, cap, mv) ==
  [board |-> b, turn |-> t, selected |-> sel, legal |-> leg, lastDouble |-> ld,
   captured |-> cap, movesEl |-> mv]

snapshot(S) ==
  [board |-> S.board, turn |-> S.turn, selected |-> S.selected, legal |-> S.legal,
   lastDouble |-> S.lastDouble, captured |-> S.captured, movesHTML |-> S.movesEl]

\* restoreSnapshot without line 93
restoreSnapshot_KeepsLastDouble(S, s) ==
  [S EXCEPT !.board = s.board, !.turn = s.turn, !.selected = s.selected,
            !.legal = s.legal, !.captured = s.captured, !.movesEl = s.movesHTML]

\* restoreSnapshot without line 89
restoreSnapshot_KeepsBoard(S, s) ==
  [S EXCEPT !.turn = s.turn, !.selected = s.selected, !.legal = s.legal,
            !.lastDouble = s.lastDouble, !.captured = s.captured,
            !.movesEl = s.movesHTML]

restoreSnapshot(S, s) ==
  [S EXCEPT !.board = s.board, !.turn = s.turn, !.selected = s.selected,
            !.legal = s.legal, !.lastDouble = s.lastDouble,
            !.captured = s.captured, !.movesEl = s.movesHTML]

(* ---------- Move notation ---------- *)
logMove(mv, turnNow, piece, capturedPiece, from, to, meta) ==
  LET name == IF piece.t = "P" THEN "" ELSE piece.t
      capture == IF capturedPiece # NoPiece \/ meta.ep THEN "x" ELSE ""
      dest == algebra(to.r, to.c)
      promo == IF piece.t = "P" /\ (to.r = 0 \/ to.r = 7) THEN "=Q" ELSE ""
      castle == IF meta.castle = "k" THEN "O-O"
                ELSE IF meta.castle = "q" THEN "O-O-O" ELSE ""
      moveText == IF castle # "" THEN castle ELSE name \o capture \o dest \o promo
      whiteTurn == (turnNow = "w")
  IN IF whiteTurn
     THEN Append(mv, ToString(Len(mv) + 1) \o ". " \o moveText)
     ELSE [mv EXCEPT ![Len(mv)] = mv[Len(mv)] \o "   " \o moveText]

(* ---------- Apply move & capture bins ---------- *)
\* the capture bins without lines 226-233: the pawn taken en passant not recorded
applyCaptured_NoEnPassant(cap, b, from, to, meta) ==
  LET piece == at(b, from.r, from.c)
      target == at(b, to.r, to.c)
  IN IF target = NoPiece THEN cap
     ELSE IF piece.c = "w"
          THEN [cap EXCEPT !.byWhite = Append(@, UNI(target.c, target.t))]
          ELSE [cap EXCEPT !.byBlack = Append(@, UNI(target.c, target.t))]
\* lines 221-233: the capture bins
applyCaptured(cap, b, from, to, meta) ==
  LET piece == at(b, from.r, from.c)
      target == at(b, to.r, to.c)
      push(cp, icon) == IF piece.c = "w"
                        THEN [cp EXCEPT !.byWhite = Append(@, icon)]
                        ELSE [cp EXCEPT !.byBlack = Append(@, icon)]
      c1 == IF target # NoPiece THEN push(cap, UNI(target.c, target.t)) ELSE cap
      epPawn == at(b, from.r, to.c)
  IN IF meta.ep /\ epPawn # NoPiece THEN push(c1, UNI(epPawn.c, epPawn.t)) ELSE c1

\* lines 234-247: the board
\* the captured pawn left standing
removeEnPassant_Keeps(b, from, to, meta) == b
\* line 234
removeEnPassant(b, from, to, meta) ==
  IF meta.ep THEN [b EXCEPT ![from.r][to.c] = NoPiece] ELSE b
\* the piece copied without moved:true
movePiece_FlagNotSet(b, piece, from, to) ==
  [b EXCEPT ![to.r][to.c] = piece, ![from.r][from.c] = NoPiece]
\* lines 236-237
movePiece(b, piece, from, to) ==
  [b EXCEPT ![to.r][to.c] = [piece EXCEPT !.moved = TRUE], ![from.r][from.c] = NoPiece]
\* the rook copied without moved:true
moveRook_FlagNotSet(b, row, meta) ==
  IF meta.castle = "k"
  THEN [b EXCEPT ![row][5] = b[row][7], ![row][7] = NoPiece]
  ELSE IF meta.castle = "q"
  THEN [b EXCEPT ![row][3] = b[row][0], ![row][0] = NoPiece]
  ELSE b
\* lines 239-243
moveRook(b, row, meta) ==
  IF meta.castle = "k"
  THEN [b EXCEPT ![row][5] = [b[row][7] EXCEPT !.moved = TRUE], ![row][7] = NoPiece]
  ELSE IF meta.castle = "q"
  THEN [b EXCEPT ![row][3] = [b[row][0] EXCEPT !.moved = TRUE], ![row][0] = NoPiece]
  ELSE b
\* the pawn left a pawn on the far rank
promote_Never(b, to) == b
\* lines 245-247
promote(b, to) ==
  IF b[to.r][to.c].t = "P" /\ (to.r = 0 \/ to.r = 7)
  THEN [b EXCEPT ![to.r][to.c].t = "Q"]
  ELSE b

applyBoard(b, from, to, meta) ==
  promote(moveRook(movePiece(removeEnPassant(b, from, to, meta),
                             at(b, from.r, from.c), from, to),
                   to.r, meta),
          to)

\* lastDouble set by every pawn move, double push or not
applyLastDouble_AnyPawnMove(piece, to, meta) ==
  IF piece.t = "P"
  THEN [r |-> to.r, c |-> to.c, dir |-> IF piece.c = "w" THEN -1 ELSE 1]
  ELSE NoDouble

\* lines 249-250: lastDouble
applyLastDouble(piece, to, meta) ==
  IF piece.t = "P" /\ meta.double
  THEN [r |-> to.r, c |-> to.c, dir |-> IF piece.c = "w" THEN -1 ELSE 1]
  ELSE NoDouble

applyMove(S, from, to, meta, simulate) ==
  LET piece == at(S.board, from.r, from.c)
      target == at(S.board, to.r, to.c)
  IN [S EXCEPT
        !.captured = IF simulate THEN @ ELSE applyCaptured(@, S.board, from, to, meta),
        !.board = applyBoard(@, from, to, meta),
        !.lastDouble = applyLastDouble(piece, to, meta),
        !.movesEl = IF simulate THEN @
                    ELSE logMove(@, S.turn, piece, target, from, to, meta)]

(* ---------- Legal moves ---------- *)
\* one turn of genLegal's loop: is the mover's king safe after m
\* inCheck(color), on the globals S
inCheckNow(S, color) == inCheck(S.board, S.lastDouble, color)

\* every pseudo-legal move taken for safe
safeAfter_Always(S, r, c, color, m) == TRUE
safeAfter(S, r, c, color, m) ==
  ~inCheckNow(applyMove(S, [r |-> r, c |-> c], [r |-> m.r, c |-> m.c], m, TRUE), color)

\* genLegal without the king-safety test of lines 208-210
genLegal_NoSafety(S, r, c) == genPseudo(S.board, S.lastDouble, r, c, FALSE)

genLegal(S, r, c) ==
  LET pseudo == genPseudo(S.board, S.lastDouble, r, c, FALSE)
      p == at(S.board, r, c)
  IN IF p = NoPiece THEN << >>
     ELSE SelectSeq(pseudo, LAMBDA m : safeAfter(S, r, c, p.c, m))

\* lines 206-209: the globals after one turn of genLegal's loop
probe(S, r, c, m) ==
  restoreSnapshot(applyMove(S, [r |-> r, c |-> c], [r |-> m.r, c |-> m.c], m, TRUE),
                  snapshot(S))

\* lines 205-211: the globals after the turns i.. of the loop
RECURSIVE probes(_, _, _, _, _)
probes(S, r, c, pseudo, i) ==
  IF i > Len(pseudo) THEN S
  ELSE probes(probe(S, r, c, pseudo[i]), r, c, pseudo, i + 1)

\* the globals genLegal(r,c) returns with
afterGenLegal(S, r, c) ==
  IF at(S.board, r, c) = NoPiece THEN S
  ELSE probes(S, r, c, genPseudo(S.board, S.lastDouble, r, c, FALSE), 1)
(* ---------- Status helpers ---------- *)
anyLegalMove(S, color) ==
  \E r \in R, c \in R :
     /\ at(S.board, r, c) # NoPiece
     /\ at(S.board, r, c).c = color
     /\ Len(genLegal(S, r, c)) > 0

\* gameStatus without the inCheck test of line 320
gameStatus_NoCheckTest(S, colorToMove) ==
  IF anyLegalMove(S, colorToMove) THEN "ongoing" ELSE "checkmate"

gameStatus(S, colorToMove) ==
  IF anyLegalMove(S, colorToMove) THEN "ongoing"
  ELSE IF inCheckNow(S, colorToMove) THEN "checkmate" ELSE "stalemate"

(* ---------- Render ---------- *)
\* what render() writes: the status line, gameOver, and (updateUndoUI) undoBtn.disabled
\* render() with gameOver set on stalemate only
show_MateNotOver(status, S, hist) ==
  [turnEl |-> IF status = "checkmate"
              THEN (IF S.turn = "w" THEN "Black" ELSE "White") \o " wins by checkmate"
              ELSE IF status = "stalemate" THEN "Draw (stalemate)"
              ELSE (IF S.turn = "w" THEN "White" ELSE "Black")
                   \o (IF inCheckNow(S, S.turn)
                       THEN " to move - in check!" ELSE " to move"),
   gameOver |-> status = "stalemate",
   undoDisabled |-> (Len(hist) = 0)]

\* lines 286-297, status being gameStatus(turn); the long dash of line 293 is
\* written "-"
show(status, S, hist) ==
  [turnEl |-> IF status = "checkmate"
              THEN (IF S.turn = "w" THEN "Black" ELSE "White") \o " wins by checkmate"
              ELSE IF status = "stalemate" THEN "Draw (stalemate)"
              ELSE (IF S.turn = "w" THEN "White" ELSE "Black")
                   \o (IF inCheckNow(S, S.turn)
                       THEN " to move - in check!" ELSE " to move"),
   gameOver |-> status # "ongoing",
   undoDisabled |-> (Len(hist) = 0)]

render(S, hist) == show(gameStatus(S, S.turn), S, hist)


(* ---------- The user ---------- *)
\* The most committed moves a game is played to.
MaxPly == 19

fileIndex(f) ==
  CASE f = "a" -> 0 [] f = "b" -> 1 [] f = "c" -> 2 [] f = "d" -> 3
    [] f = "e" -> 4 [] f = "f" -> 5 [] f = "g" -> 6 [] f = "h" -> 7
\* the square the user means by file f, rank rk: dataset.r, dataset.c of its button
sq(f, rk) == [r |-> 8 - rk, c |-> fileIndex(f)]
go(f1, r1, f2, r2) == << sq(f1, r1), sq(f2, r2) >>

\* The games the user plays: the squares clicked for each move, in order.
Scripts ==
  << \* 1: en passant taken
     << go("e",2,"e",4), go("a",7,"a",6), go("e",4,"e",5), go("f",7,"f",5),
        go("e",5,"f",6), go("e",7,"f",6) >>,
     \* 2: e4 f5, a capture, then a single push beside the pawn
     << go("e",2,"e",4), go("f",7,"f",5), go("e",4,"f",5), go("g",7,"g",6),
        go("a",2,"a",3), go("g",6,"g",5), go("h",2,"h",4) >>,
     \* 3: en passant declined, then a second double push on the other side
     << go("e",2,"e",4), go("a",7,"a",6), go("e",4,"e",5), go("f",7,"f",5),
        go("a",2,"a",3), go("d",7,"d",5), go("e",5,"d",6) >>,
     \* 4: fool's mate
     << go("f",2,"f",3), go("e",7,"e",5), go("g",2,"g",4), go("d",8,"h",4) >>,
     \* 5: a check answered, queen taken
     << go("e",2,"e",4), go("f",7,"f",6), go("d",1,"h",5), go("g",7,"g",6),
        go("h",5,"g",6), go("h",7,"g",6) >>,
     \* 6: both sides castle short
     << go("e",2,"e",3), go("e",7,"e",6), go("f",1,"e",2), go("f",8,"e",7),
        go("g",1,"f",3), go("g",8,"f",6), go("e",1,"g",1), go("e",8,"g",8) >>,
     \* 7: both sides castle long
     << go("d",2,"d",4), go("d",7,"d",5), go("b",1,"c",3), go("b",8,"c",6),
        go("c",1,"f",4), go("c",8,"f",5), go("d",1,"d",2), go("d",8,"d",7),
        go("e",1,"c",1), go("e",8,"c",8) >>,
     \* 8: kings step aside and back, then rooks, then the a- and b-pawns
     << go("e",2,"e",3), go("e",7,"e",6), go("f",1,"e",2), go("f",8,"e",7),
        go("g",1,"f",3), go("g",8,"f",6), go("e",1,"f",1), go("e",8,"f",8),
        go("f",1,"e",1), go("f",8,"e",8), go("h",1,"g",1), go("h",8,"g",8),
        go("g",1,"h",1), go("g",8,"h",8), go("a",2,"a",3), go("a",7,"a",6),
        go("a",3,"a",4), go("a",6,"a",5), go("b",2,"b",3), go("b",7,"b",6),
        go("b",3,"b",4) >>,
     \* 9: rooks step aside and back
     << go("e",2,"e",3), go("e",7,"e",6), go("f",1,"e",2), go("f",8,"e",7),
        go("g",1,"f",3), go("g",8,"f",6), go("h",1,"g",1), go("h",8,"g",8),
        go("g",1,"h",1), go("g",8,"h",8) >>,
     \* 10: a black pawn reaches g2, White castles short, the pawn takes on f1
     << go("e",2,"e",3), go("h",7,"h",5), go("f",1,"e",2), go("h",5,"h",4),
        go("g",1,"f",3), go("h",4,"h",3), go("a",2,"a",3), go("h",3,"g",2),
        go("e",1,"g",1), go("g",2,"f",1) >>,
     \* 11: the rook on h8 is taken at home
     << go("b",2,"b",3), go("g",7,"g",6), go("c",1,"b",2), go("g",8,"h",6),
        go("b",2,"h",8), go("f",8,"g",7), go("h",8,"g",7), go("a",7,"a",6) >>,
     \* 12: stalemate in ten moves
     << go("e",2,"e",3), go("a",7,"a",5), go("d",1,"h",5), go("a",8,"a",6),
        go("h",5,"a",5), go("h",7,"h",5), go("h",2,"h",4), go("a",6,"h",6),
        go("a",5,"c",7), go("f",7,"f",6), go("c",7,"d",7), go("e",8,"f",7),
        go("d",7,"b",7), go("d",8,"d",3), go("b",7,"b",8), go("d",3,"h",7),
        go("b",8,"c",8), go("f",7,"g",6), go("c",8,"e",6) >>,
     \* 13: a white pawn walks to a8
     << go("a",2,"a",4), go("b",7,"b",5), go("a",4,"b",5), go("a",7,"a",6),
        go("b",5,"a",6), go("b",8,"c",6), go("a",6,"a",7), go("a",8,"b",8),
        go("a",7,"a",8) >>,
     \* 14: a check ignored: a7-a6 is asked for with the king attacked from h5
     << go("e",2,"e",4), go("f",7,"f",6), go("d",1,"h",5), go("a",7,"a",6),
        go("h",5,"e",8) >> >>

Games == DOMAIN Scripts

\* The squares the user may click after n committed moves of game g: those of
\* the game's next move, and a square in the middle of the board.
Clicks(g, n) ==
  (IF n < Len(Scripts[g]) THEN {Scripts[g][n + 1][1], Scripts[g][n + 1][2]} ELSE {})
  \cup {sq("e",6)}

(* ---------- Init ---------- *)
NoCaptured == [byWhite |-> << >>, byBlack |-> << >>]

\* the session as the variables hold it
Now == Session(board, turn, selected, legal, lastDouble, captured, movesEl)

\* init(): loadFEN, the resets of line 416, history = [], render()
\* the page after init()'s render()
firstShown == render(Session(loadFEN(initialFEN), "w", NoSquare, << >>, NoDouble,
                             NoCaptured, << >>), << >>)

\* init(): loadFEN, the resets of lines 416-417, render()
Init ==
  /\ board = loadFEN(initialFEN)
  /\ turn = "w"
  /\ selected = NoSquare
  /\ legal = << >>
  /\ lastDouble = NoDouble
  /\ captured = NoCaptured
  /\ history = << >>
  /\ movesEl = << >>
  /\ gameOver = firstShown.gameOver
  /\ turnEl = firstShown.turnEl
  /\ undoDisabled = firstShown.undoDisabled
  /\ game \in Games
  /\ outcome = "init"

\* what render() last wrote
Shown == [turnEl |-> turnEl, gameOver |-> gameOver, undoDisabled |-> undoDisabled]

\* the globals after a handler: session T, history h, the page as v shows it
Becomes(T, h, v, how) ==
  /\ board' = T.board
  /\ turn' = T.turn
  /\ selected' = T.selected
  /\ legal' = T.legal
  /\ lastDouble' = T.lastDouble
  /\ captured' = T.captured
  /\ movesEl' = T.movesEl
  /\ history' = h
  /\ gameOver' = v.gameOver
  /\ turnEl' = v.turnEl
  /\ undoDisabled' = v.undoDisabled
  /\ outcome' = how

(* ---------- Click handling ---------- *)
\* find matching on the column alone
find_ColumnOnly(leg, r, c) ==
  IF \E i \in DOMAIN leg : leg[i].c = c
  THEN CHOOSE i \in DOMAIN leg : /\ leg[i].c = c
                                 /\ \A j \in 1..(i - 1) : leg[j].c # c
  ELSE 0

\* legal.find(m => m.r===r && m.c===c): the index of the first match, or 0
find(leg, r, c) ==
  IF \E i \in DOMAIN leg : leg[i].r = r /\ leg[i].c = c
  THEN CHOOSE i \in DOMAIN leg : /\ leg[i].r = r /\ leg[i].c = c
                                 /\ \A j \in 1..(i - 1) : ~(leg[j].r = r /\ leg[j].c = c)
  ELSE 0

\* onSquareClick without the return of line 336
clickPath_NoGuard(S, over, r, c) ==
  IF S.selected = NoSquare
  THEN IF at(S.board, r, c) = NoPiece \/ at(S.board, r, c).c # S.turn
       THEN "nothing" ELSE "select"
  ELSE IF at(S.board, r, c) # NoPiece /\ at(S.board, r, c).c = S.turn THEN "reselect"
  ELSE IF find(S.legal, r, c) = 0 THEN "reject"
  ELSE "commit"
\* the path onSquareClick takes: which return it leaves through
clickPath(S, over, r, c) ==
  IF over THEN "over"
  ELSE IF S.selected = NoSquare
       THEN IF at(S.board, r, c) = NoPiece \/ at(S.board, r, c).c # S.turn
            THEN "nothing" ELSE "select"
       ELSE IF at(S.board, r, c) # NoPiece /\ at(S.board, r, c).c = S.turn THEN "reselect"
       ELSE IF find(S.legal, r, c) = 0 THEN "reject"
       ELSE "commit"

\* lines 343-344 and 350-351, S having selected = {r,c}
withLegal(S, r, c) == [S EXCEPT !.legal = genLegal(S, r, c)]
select(S, r, c) == withLegal([S EXCEPT !.selected = [r |-> r, c |-> c]], r, c)

\* lines 363-364 without turn = (turn==='w')?'b':'w'
passTurn_Stays(S) == [S EXCEPT !.selected = NoSquare, !.legal = << >>]
\* lines 363-364 without selected=null; legal=[]
passTurn_KeepsSelection(S) == [S EXCEPT !.turn = IF S.turn = "w" THEN "b" ELSE "w"]
\* lines 363-364, S being the session after applyMove
passTurn(S) ==
  [S EXCEPT !.turn = IF S.turn = "w" THEN "b" ELSE "w",
            !.selected = NoSquare, !.legal = << >>]
\* lines 362-364
commit(S, r, c, mv) ==
  passTurn(applyMove(S, S.selected, [r |-> r, c |-> c], mv, FALSE))

\* the session onSquareClick leaves, by path
clicked(S, path, r, c) ==
  CASE path \in {"select", "reselect"} -> select(S, r, c)
    [] path = "reject" -> [S EXCEPT !.selected = NoSquare, !.legal = << >>]
    [] path = "commit" -> commit(S, r, c, S.legal[find(S.legal, r, c)])
    [] OTHER -> S

\* undo returning without render(): the page as it was before
finish_UndoNoRender(T, h, path) ==
  Becomes(T, h,
          IF path \in {"over", "nothing", "undoEmpty", "undo"} THEN Shown ELSE render(T, h),
          path)
\* a handler that ends in render() for session T and history h, or returns before it
finish(T, h, path) ==
  Becomes(T, h,
          IF path \in {"over", "nothing", "undoEmpty"} THEN Shown ELSE render(T, h),
          path)

onSquareClickAs(path, r, c) ==
  finish(clicked(Now, path, r, c),
         IF path = "commit" THEN Append(history, snapshot(Now)) ELSE history,
         path)

onSquareClick(r, c) ==
  /\ UNCHANGED game
  /\ onSquareClickAs(clickPath(Now, gameOver, r, c), r, c)

(* ---------- UNDO ---------- *)
\* lines 391-394
undone(S, hist) ==
  IF Len(hist) = 0 THEN S
  ELSE [restoreSnapshot(S, hist[Len(hist)]) EXCEPT !.selected = NoSquare, !.legal = << >>]

undo ==
  /\ UNCHANGED game
  /\ finish(undone(Now, history),
            IF Len(history) = 0 THEN history ELSE SubSeq(history, 1, Len(history) - 1),
            IF Len(history) = 0 THEN "undoEmpty" ELSE "undo")

(* ---------- New game ---------- *)
\* the handler without movesEl.innerHTML='' of line 421
fresh_KeepsLog ==
  Session(loadFEN(initialFEN), "w", NoSquare, << >>, NoDouble, NoCaptured, movesEl)
\* lines 420-423
fresh == Session(loadFEN(initialFEN), "w", NoSquare, << >>, NoDouble, NoCaptured, << >>)

newGame ==
  /\ finish(fresh, << >>, "newGame")
  /\ game' \in Games

Click ==
  /\ Len(history) < MaxPly
  /\ \E s \in Clicks(game, Len(history)) : onSquareClick(s.r, s.c)

Next == Click \/ undo \/ newGame

Spec == Init /\ [][Next]_vars


(***************************************************************************)
(* The rules of chess, stated without the program's generator: what it     *)
(* means for a piece of colour `by` to attack square (r,c) on board b.     *)
(***************************************************************************)
sign(x) == IF x > 0 THEN 1 ELSE IF x < 0 THEN -1 ELSE 0
max(x, y) == IF x > y THEN x ELSE y

\* the squares strictly between (pr,pc) and (r,c), on one line, are empty
ClearLine(b, pr, pc, r, c) ==
  \A k \in 1..(max(abs(r - pr), abs(c - pc)) - 1) :
     b[pr + k * sign(r - pr)][pc + k * sign(c - pc)] = NoPiece

\* the piece on (pr,pc) attacks (r,c)
PieceAttacks(b, pr, pc, r, c) ==
  LET p == b[pr][pc]
      dr == r - pr
      dc == c - pc
      straight == (dr = 0 \/ dc = 0) /\ (dr # 0 \/ dc # 0)
      diagonal == abs(dr) = abs(dc) /\ dr # 0
  IN CASE p.t = "P" -> dr = (IF p.c = "w" THEN -1 ELSE 1) /\ abs(dc) = 1
       [] p.t = "N" -> {abs(dr), abs(dc)} = {1, 2}
       [] p.t = "K" -> max(abs(dr), abs(dc)) = 1
       [] p.t = "B" -> diagonal /\ ClearLine(b, pr, pc, r, c)
       [] p.t = "R" -> straight /\ ClearLine(b, pr, pc, r, c)
       [] p.t = "Q" -> (straight \/ diagonal) /\ ClearLine(b, pr, pc, r, c)
       [] OTHER -> FALSE

Attacked(b, by, r, c) ==
  \E pr \in R, pc \in R : b[pr][pc].c = by /\ PieceAttacks(b, pr, pc, r, c)

\* colour clr has exactly one king on b, and no piece of the other colour attacks it
KingSafe(b, clr) ==
  /\ \E r \in R, c \in R : b[r][c].t = "K" /\ b[r][c].c = clr
  /\ \A r \in R, c \in R :
       (b[r][c].t = "K" /\ b[r][c].c = clr) => ~Attacked(b, other(clr), r, c)

Own(r, c) == board[r][c] # NoPiece /\ board[r][c].c = turn

\* the board after committing move m of the piece on (r,c)
After(r, c, m) == applyMove(Now, [r |-> r, c |-> c], [r |-> m.r, c |-> m.c], m, TRUE).board

\* every move of L, made by the piece on (r,c), leaves the mover's king safe
AllSafe(L, r, c) == \A i \in DOMAIN L : KingSafe(After(r, c, L[i]), turn)

(***************************************************************************)
(* C1. Self-check safety: in every reachable position, for every piece of  *)
(* the side to move, after any move genLegal returns for it (the captured  *)
(* en-passant pawn removed, the castling rook moved, the pawn promoted)    *)
(* no opposing piece attacks the mover's king.                             *)
(***************************************************************************)
C1_SelfCheckSafety ==
  \A r \in R, c \in R : Own(r, c) => AllSafe(genLegal(Now, r, c), r, c)

\* a piece is selected whose legal moves are some, but not all, of its pseudo-legal ones
C1_Witness ==
  /\ outcome = "select"
  /\ Len(legal) > 0
  /\ Len(legal) < Len(genPseudo(board, lastDouble, selected.r, selected.c, FALSE))

(***************************************************************************)
(* C2. Round-trip undo: a committed move pushes exactly the session it     *)
(* started from (board with every moved flag, turn, lastDouble, both       *)
(* capture bins, move log); no other handler touches the stack; one undo   *)
(* pops exactly one snapshot and leaves the session equal to it. With the  *)
(* history empty the session is that of a new game.                        *)
(***************************************************************************)
Top(h) == h[Len(h)]
Pop(h) == SubSeq(h, 1, Len(h) - 1)

\* the session holds what snapshot s holds
Holds(s, b, t, ld, cap, mv) ==
  /\ b = s.board
  /\ t = s.turn
  /\ ld = s.lastDouble
  /\ cap = s.captured
  /\ mv = s.movesHTML

Start == [r \in R |->
            [c \in R |->
               CASE r = 0 -> Piece(<<"R","N","B","Q","K","B","N","R">>[c + 1], "b")
                 [] r = 1 -> Piece("P", "b")
                 [] r = 6 -> Piece("P", "w")
                 [] r = 7 -> Piece(<<"R","N","B","Q","K","B","N","R">>[c + 1], "w")
                 [] OTHER -> NoPiece]]

UndoStep ==
  /\ outcome' = "commit" =>
       /\ Len(history') = Len(history) + 1
       /\ Pop(history') = history
       /\ Holds(Top(history'), board, turn, lastDouble, captured, movesEl)
  /\ outcome' = "undo" =>
       /\ Len(history) > 0
       /\ history' = Pop(history)
       /\ Holds(Top(history), board', turn', lastDouble', captured', movesEl')
  /\ outcome' \notin {"commit", "undo", "newGame"} => history' = history

C2_RoundTripUndo ==
  /\ [](Len(history) = 0 =>
          /\ board = Start
          /\ turn = "w"
          /\ lastDouble = NoDouble
          /\ captured = NoCaptured
          /\ movesEl = << >>)
  /\ [][UndoStep]_vars

\* an undo has just restored a position with an en-passant target and a move log
C2_Witness ==
  /\ outcome = "undo"
  /\ Len(history) > 0
  /\ lastDouble # NoDouble
  /\ movesEl # << >>

(***************************************************************************)
(* Castling, by the rules of chess                                         *)
(***************************************************************************)
homeRow(clr) == IF clr = "w" THEN 7 ELSE 0
rookFile(side) == IF side = "k" THEN 7 ELSE 0
toward(side) == IF side = "k" THEN 1 ELSE -1
Between(side) == IF side = "k" THEN {5, 6} ELSE {1, 2, 3}
\* the files of the king's start square, the square it passes and its landing square
KingPath(side) == {4, 4 + toward(side), 4 + 2 * toward(side)}

\* the conditions of castling for colour clr on `side`, on the board as it stands
MayCastle(clr, side) ==
  /\ board[homeRow(clr)][4] = Piece("K", clr)
  /\ board[homeRow(clr)][rookFile(side)] = Piece("R", clr)
  /\ \A c \in Between(side) : board[homeRow(clr)][c] = NoPiece
  /\ \A c \in KingPath(side) : ~Attacked(board, other(clr), homeRow(clr), c)

\* move list L holds the castling move to `side` of the king on (row, 4)
HasCastle(L, row, side) ==
  \E i \in DOMAIN L : L[i].castle = side /\ L[i].r = row /\ L[i].c = 4 + 2 * toward(side)

\* L holds no castling move but one that the rules allow
OnlyLawfulCastles(L, clr) ==
  \A i \in DOMAIN L : L[i].castle # "-" => MayCastle(clr, L[i].castle)

(***************************************************************************)
(* C3. Castling safety: a castling move is among the king's legal moves    *)
(* only if king and rook have never moved, the squares between them are    *)
(* empty, and no opposing piece attacks the king's start square, the       *)
(* square it passes or its landing square (a pawn attacks both squares     *)
(* diagonally ahead of it, occupied or not). The code lets the king pass   *)
(* a square that only a pawn attacks: TLC finds this violated.             *)
(***************************************************************************)
C3_CastlingSafety ==
  \A r \in R, c \in R :
     (Own(r, c) /\ board[r][c].t = "K") => OnlyLawfulCastles(genLegal(Now, r, c), turn)

(***************************************************************************)
(* C4. Castling availability and effect: when the side to move has its     *)
(* unmoved king and rook at home, the squares between them empty and none  *)
(* of the king's three squares attacked, the castling move is in the       *)
(* king's genLegal; once committed, king and rook stand on the g- and      *)
(* f-file (c- and d-file), both marked moved, and the king's and rook's    *)
(* home squares are empty.                                                 *)
(***************************************************************************)
\* the last committed move took clr's king from the e-file to `side`
JustCastled(clr, side) ==
  /\ Len(history) > 0
  /\ Top(history).turn = clr
  /\ Top(history).selected = [r |-> homeRow(clr), c |-> 4]
  /\ Top(history).board[homeRow(clr)][4].t = "K"
  /\ board[homeRow(clr)][4 + 2 * toward(side)].t = "K"

Castled(clr, side) ==
  /\ board[homeRow(clr)][4 + 2 * toward(side)] = [t |-> "K", c |-> clr, moved |-> TRUE]
  /\ board[homeRow(clr)][4 + toward(side)] = [t |-> "R", c |-> clr, moved |-> TRUE]
  /\ board[homeRow(clr)][4] = NoPiece
  /\ board[homeRow(clr)][rookFile(side)] = NoPiece

C4_CastlingAvailableAndEffect ==
  \A clr \in {"w", "b"}, side \in {"k", "q"} :
     /\ (turn = clr /\ MayCastle(clr, side))
          => HasCastle(genLegal(Now, homeRow(clr), 4), homeRow(clr), side)
     /\ JustCastled(clr, side) => Castled(clr, side)

\* White has just castled short
C4_Witness == outcome = "commit" /\ JustCastled("w", "k") /\ Castled("w", "k")

(***************************************************************************)
(* C5. Castling rights revocation: once any board since the start of the   *)
(* game (the snapshots still on the stack, and the current board) shows a  *)
(* colour's king, or the rook of one side, away from its home square, no   *)
(* castling move of that colour on that side is in the king's legal moves. *)
(***************************************************************************)
Boards == {history[i].board : i \in DOMAIN history} \cup {board}

Left(clr, t, file) ==
  \E b \in Boards : b[homeRow(clr)][file].t # t \/ b[homeRow(clr)][file].c # clr

NoCastle(L, side) == \A i \in DOMAIN L : L[i].castle # side

KingsNoCastle(clr, side) ==
  \A r \in R, c \in R :
     (board[r][c].t = "K" /\ board[r][c].c = clr) => NoCastle(genLegal(Now, r, c), side)

C5_CastlingRightsRevoked ==
  \A clr \in {"w", "b"}, side \in {"k", "q"} :
     (Left(clr, "K", 4) \/ Left(clr, "R", rookFile(side))) => KingsNoCastle(clr, side)

\* White's king has been away and is back home, unattacked, with the rook at
\* home and the squares between them empty
C5_Witness ==
  /\ turn = "w"
  /\ Left("w", "K", 4)
  /\ board[7][4].t = "K" /\ board[7][4].c = "w"
  /\ board[7][7] = Piece("R", "w")
  /\ board[7][5] = NoPiece /\ board[7][6] = NoPiece
  /\ \A c \in KingPath("k") : ~Attacked(board, "b", 7, c)

(***************************************************************************)
(* En passant, by the rules of chess                                       *)
(***************************************************************************)
pawnHome(clr) == IF clr = "w" THEN 6 ELSE 1
forward(clr) == IF clr = "w" THEN -1 ELSE 1

\* between board `was` and board `is`, a pawn of clr went from its home square
\* on file f two squares forward to rank r
DoublePushed(was, is, clr, r, f) ==
  /\ r = pawnHome(clr) + 2 * forward(clr)
  /\ was[pawnHome(clr)][f] = Piece("P", clr)
  /\ was[pawnHome(clr) + forward(clr)][f] = NoPiece
  /\ was[r][f] = NoPiece
  /\ is[pawnHome(clr)][f] = NoPiece
  /\ is[r][f] = [t |-> "P", c |-> clr, moved |-> TRUE]

\* every en-passant move of L, for the pawn on (r,c), answers the last committed move
InWindow(L, r, c) ==
  \A i \in DOMAIN L :
     L[i].ep =>
       /\ Len(history) > 0
       /\ Top(history).turn = other(turn)
       /\ abs(L[i].c - c) = 1
       /\ L[i].r = r + forward(turn)
       /\ DoublePushed(Top(history).board, board, other(turn), r, L[i].c)

(***************************************************************************)
(* C6. En passant window: an en-passant capture is among a pawn's legal    *)
(* moves only if the last committed move was a double push of an opposing  *)
(* pawn that landed beside it, on the same rank and an adjacent file, and  *)
(* the capture goes to that file. After any other committed move no        *)
(* en-passant capture is generated.                                        *)
(***************************************************************************)
C6_EnPassantWindow ==
  \A r \in R, c \in R :
     (Own(r, c) /\ board[r][c].t = "P") => InWindow(genLegal(Now, r, c), r, c)

\* the selected pawn may capture en passant
C6_Witness ==
  /\ outcome = "select"
  /\ board[selected.r][selected.c].t = "P"
  /\ \E i \in DOMAIN legal : legal[i].ep

(***************************************************************************)
(* Scenarios: positions named by the moves that lead to them               *)
(***************************************************************************)
\* board b with the piece on `from` set on `to`, as an ordinary move does
Put(b, from, to) ==
  [b EXCEPT ![to.r][to.c] = [b[from.r][from.c] EXCEPT !.moved = TRUE],
            ![from.r][from.c] = NoPiece]

\* the board after the first n moves of the line
RECURSIVE Line(_, _)
Line(moves, n) ==
  IF n = 0 THEN Start ELSE Put(Line(moves, n - 1), moves[n][1], moves[n][2])

\* move list L holds an en-passant capture to square s
HasEnPassant(L, s) == \E i \in DOMAIN L : L[i].ep /\ L[i].r = s.r /\ L[i].c = s.c
\* move list L holds a move to square s that is no en-passant capture
HasPlain(L, s) == \E i \in DOMAIN L : ~L[i].ep /\ L[i].r = s.r /\ L[i].c = s.c
NoEnPassant(L) == \A i \in DOMAIN L : ~L[i].ep

\* 1. e2-e4 f7-f5
E4F5 == << go("e",2,"e",4), go("f",7,"f",5) >>
\* 1. e2-e4 a7-a6 2. e4-e5 f7-f5
E5F5 == << go("e",2,"e",4), go("a",7,"a",6), go("e",4,"e",5), go("f",7,"f",5) >>

\* the last committed move took a white pawn from e5 to f6 after 2... f7-f5
TookE5F6 ==
  /\ Len(history) = Len(E5F5) + 1
  /\ Top(history).board = Line(E5F5, Len(E5F5))
  /\ Top(history).selected = sq("e",5)
  /\ board[2][5].t = "P" /\ board[2][5].c = "w"

(***************************************************************************)
(* C7 as stated. En passant, scenario B: after e2-e4 and f7-f5 the pawn on *)
(* e4 has an en-passant capture to f6 among its legal moves. The pawn      *)
(* stands on its fourth rank, not its fifth: the code offers it the        *)
(* ordinary capture on f5 and no en-passant capture.                       *)
(***************************************************************************)
C7_ScenarioB_AsStated ==
  (Len(history) = Len(E4F5) /\ board = Line(E4F5, Len(E4F5)))
     => HasEnPassant(genLegal(Now, 4, 4), sq("f",6))

(***************************************************************************)
(* C7, amended. After e2-e4 and f7-f5 the pawn on e4 has the ordinary      *)
(* capture on f5 and no en-passant capture. After e2-e4, a7-a6, e4-e5 and  *)
(* f7-f5 the pawn on e5 has an en-passant capture to f6, and committing it *)
(* removes the black pawn from f5 into White's capture bin.                *)
(***************************************************************************)
C7_ScenarioB_Amended ==
  /\ (Len(history) = Len(E4F5) /\ board = Line(E4F5, Len(E4F5)))
        => /\ NoEnPassant(genLegal(Now, 4, 4))
           /\ HasPlain(genLegal(Now, 4, 4), sq("f",5))
  /\ (Len(history) = Len(E5F5) /\ board = Line(E5F5, Len(E5F5)))
        => HasEnPassant(genLegal(Now, 3, 4), sq("f",6))
  /\ TookE5F6
        => /\ board[3][5] = NoPiece
           /\ board[3][4] = NoPiece
           /\ captured.byWhite = << UNI("b", "P") >>

\* the en-passant capture e5xf6 has just been committed
C7_Witness == outcome = "commit" /\ TookE5F6 /\ board[3][5] = NoPiece

(***************************************************************************)
(* C8. Checkmate, scenario C: from a new game f2-f3, e7-e5, g2-g4 and      *)
(* Qd8-h4 are each among the legal moves of their piece in turn, and in    *)
(* the position after the fourth gameStatus('w') is 'checkmate', the       *)
(* status line announces it and gameOver is set.                           *)
(***************************************************************************)
FoolsMate == << go("f",2,"f",3), go("e",7,"e",5), go("g",2,"g",4), go("d",8,"h",4) >>

\* after n moves of the line, its next move is among the legal moves of its piece
NextAccepted(moves, n) ==
  (Len(history) = n /\ board = Line(moves, n))
     => some(genLegal(Now, moves[n + 1][1].r, moves[n + 1][1].c),
             moves[n + 1][2].r, moves[n + 1][2].c)

C8_FoolsMate ==
  /\ \A n \in 0..(Len(FoolsMate) - 1) : NextAccepted(FoolsMate, n)
  /\ (Len(history) = Len(FoolsMate) /\ board = Line(FoolsMate, Len(FoolsMate)))
        => /\ gameStatus(Now, "w") = "checkmate"
           /\ gameOver
           /\ turnEl = "Black wins by checkmate"

\* the mating move has just been committed
C8_Witness ==
  /\ outcome = "commit"
  /\ Len(history) = Len(FoolsMate)
  /\ board = Line(FoolsMate, Len(FoolsMate))
  /\ movesEl = << "1. f3   e5", "2. g4   Qh4" >>

(***************************************************************************)
(* C9. Status classification: for the side to move, gameStatus is          *)
(* 'ongoing' exactly when some piece of it has a legal move; with none it  *)
(* is 'checkmate' exactly when an opposing piece attacks its king and      *)
(* 'stalemate' exactly when none does.                                     *)
(***************************************************************************)
HasMove == \E r \in R, c \in R : Own(r, c) /\ Len(genLegal(Now, r, c)) > 0

Classified(status, hasMove, safe) ==
  /\ status \in {"ongoing", "checkmate", "stalemate"}
  /\ status = "ongoing" <=> hasMove
  /\ status = "checkmate" <=> (~hasMove /\ ~safe)
  /\ status = "stalemate" <=> (~hasMove /\ safe)

C9_StatusClassification ==
  Classified(gameStatus(Now, turn), HasMove, KingSafe(board, turn))

\* the side to move has no legal move and its king is not attacked
C9_Witness ==
  /\ outcome = "commit"
  /\ turnEl = "Draw (stalemate)"
  /\ KingSafe(board, turn)
  /\ ~HasMove

(***************************************************************************)
(* C10. Illegal move rejection: with a piece selected, a click on a square *)
(* that holds no piece of the side to move and is the destination of no    *)
(* legal move of the selected piece changes nothing but the selection:     *)
(* board, turn, lastDouble, capture bins, move log and history stay as     *)
(* they are, and the selection is cleared.                                 *)
(***************************************************************************)
Squares == {[r |-> r, c |-> c] : r \in R, c \in R}

\* a click on a square that is no destination of L and holds no piece of the mover
Rejected(L) ==
  \A s \in Squares :
     (/\ ~Own(s.r, s.c)
      /\ ~some(L, s.r, s.c)
      /\ onSquareClick(s.r, s.c))
        => /\ UNCHANGED <<board, turn, lastDouble, captured, movesEl, history>>
           /\ selected' = NoSquare
           /\ legal' = << >>

RejectStep ==
  selected # NoSquare => Rejected(genLegal(Now, selected.r, selected.c))

C10_IllegalMoveRejected == [][RejectStep]_vars

\* a click has just been rejected, some moves into a game
C10_Witness == outcome = "reject" /\ selected = NoSquare /\ Len(history) > 0

(***************************************************************************)
(* C11. Terminal states: while the side to move is checkmated or           *)
(* stalemated, a click on any square leaves board, turn, lastDouble,       *)
(* capture bins, move log, history, selection and legal list as they are;  *)
(* a step that changes any of them from such a state is an undo or a new   *)
(* game.                                                                   *)
(***************************************************************************)
session == <<board, turn, selected, legal, lastDouble, captured, movesEl, history>>

\* a click on square s, handled from the state as it stands, changes nothing
ClickIdle(s) ==
  /\ clicked(Now, clickPath(Now, gameOver, s.r, s.c), s.r, s.c) = Now
  /\ clickPath(Now, gameOver, s.r, s.c) # "commit"

Terminal(status) == status \in {"checkmate", "stalemate"}

TerminalStep ==
  (Terminal(gameStatus(Now, turn)) /\ session' # session)
     => (undo \/ newGame) /\ ~(\E s \in Squares : onSquareClick(s.r, s.c))

C11_TerminalStates ==
  /\ [](Terminal(gameStatus(Now, turn)) => \A s \in Squares : ClickIdle(s))
  /\ [][TerminalStep]_vars

\* a square has been clicked with the side to move checkmated
C11_Witness ==
  /\ outcome = "over"
  /\ turnEl = "Black wins by checkmate"
  /\ Len(history) = Len(FoolsMate)

(***************************************************************************)
(* C12. New game reset: a new game, asked for in any reachable state,      *)
(* leaves the initial session: the starting placement with every moved     *)
(* flag false, White to move, lastDouble null, both capture bins, the move *)
(* log and the history empty, nothing selected, gameOver false. An undo    *)
(* from that session changes nothing.                                      *)
(***************************************************************************)
InitialSession ==
  /\ board = Start
  /\ \A r \in R, c \in R : ~board[r][c].moved
  /\ turn = "w"
  /\ lastDouble = NoDouble
  /\ captured = NoCaptured
  /\ movesEl = << >>
  /\ history = << >>
  /\ selected = NoSquare
  /\ ~gameOver

NewGameStep ==
  /\ newGame => InitialSession'
  /\ (InitialSession /\ undo) => UNCHANGED <<session, gameOver, turnEl, undoDisabled>>

C12_NewGameReset == [][NewGameStep]_vars

\* a new game has just been started
C12_Witness == outcome = "newGame" /\ InitialSession /\ undoDisabled

(***************************************************************************)
(* C13. Game-over flag recomputed: in every reachable state gameOver is    *)
(* true exactly when gameStatus(turn) is not 'ongoing'. After an undo,     *)
(* also of the move that mated or stalemated, gameOver is false and some   *)
(* piece of the side to move can be selected and has a legal move.         *)
(***************************************************************************)
\* a click on some square selects a piece that has a legal move
CanPlay ==
  \E s \in Squares :
     /\ clickPath(Now, gameOver, s.r, s.c) = "select"
     /\ Len(genLegal(Now, s.r, s.c)) > 0

FlagIs(status) ==
  /\ gameOver <=> status # "ongoing"
  /\ outcome = "undo" => (~gameOver /\ CanPlay)

C13_GameOverRecomputed == FlagIs(gameStatus(Now, turn))

\* the mating move of scenario C has just been undone
C13_Witness ==
  /\ outcome = "undo"
  /\ Len(history) = Len(FoolsMate) - 1
  /\ board = Line(FoolsMate, Len(FoolsMate) - 1)
  /\ ~gameOver
  /\ turnEl = "Black to move"

(***************************************************************************)
(* C14. Auto-queen promotion: in every reachable state no pawn stands on   *)
(* row 0 or row 7; when the last committed move was made by a pawn one     *)
(* step from the far rank, by push or by capture, a queen of its colour    *)
(* stands on the far rank on its file or a neighbouring one, where none    *)
(* stood before, and the side has one queen more and one pawn fewer.       *)
(***************************************************************************)
Count(b, t, clr) ==
  Cardinality({s \in Squares : b[s.r][s.c].t = t /\ b[s.r][s.c].c = clr})

NoPawnOnEdge(b) == \A c \in R : b[0][c].t # "P" /\ b[7][c].t # "P"

farRow(clr) == IF clr = "w" THEN 0 ELSE 7

\* the piece that made the move committed from snapshot s
Mover(s) == s.board[s.selected.r][s.selected.c]

\* the move committed from snapshot s was made by a pawn one step from the far rank
Promoting(s) ==
  /\ Mover(s).t = "P"
  /\ s.selected.r + forward(Mover(s).c) = farRow(Mover(s).c)

\* board b shows the pawn of snapshot s turned into a queen
Queened(s, b, clr) ==
  /\ \E c \in R :
        /\ abs(c - s.selected.c) <= 1
        /\ b[farRow(clr)][c] = [t |-> "Q", c |-> clr, moved |-> TRUE]
        /\ s.board[farRow(clr)][c] # b[farRow(clr)][c]
  /\ b[s.selected.r][s.selected.c] = NoPiece
  /\ Count(b, "Q", clr) = Count(s.board, "Q", clr) + 1
  /\ Count(b, "P", clr) = Count(s.board, "P", clr) - 1

C14_AutoQueen ==
  /\ NoPawnOnEdge(board)
  /\ (Len(history) > 0 /\ Promoting(Top(history)))
        => Queened(Top(history), board, Mover(Top(history)).c)

\* a pawn has just been moved to the far rank
C14_Witness ==
  /\ outcome = "commit"
  /\ Promoting(Top(history))
  /\ Top(history).board[farRow(other(turn))][Top(history).selected.c] = NoPiece
  /\ board[farRow(other(turn))][Top(history).selected.c].t = "Q"

(***************************************************************************)
(* C15. Capture accounting: the move committed from the top snapshot took  *)
(* at most one piece off the board, one of the opponent's and no king, and *)
(* appended exactly its icon to the mover's capture bin, the other bin     *)
(* staying as it was; a piece taken from a square the mover did not land   *)
(* on is a pawn on the mover's origin rank, behind the square the mover's  *)
(* pawn landed on. In every reachable state the pieces on the board and    *)
(* in the two bins are 32, White's bin holds black pieces only and Black's *)
(* bin white pieces only.                                                  *)
(***************************************************************************)
OnBoard(b, clr) == Cardinality({q \in Squares : b[q.r][q.c].c = clr})

Bin(cap, clr) == IF clr = "w" THEN cap.byWhite ELSE cap.byBlack

\* the icons of the pieces of colour clr that can be captured
Icons(clr) == {UNI(clr, t) : t \in {"Q", "R", "B", "N", "P"}}

OnlyIcons(bin, clr) == \A i \in DOMAIN bin : bin[i] \in Icons(clr)

\* the squares where a piece of colour clr stood on board was and none stands on b
Gone(was, b, clr) == {q \in Squares : was[q.r][q.c].c = clr /\ b[q.r][q.c].c # clr}

\* the piece x that stood on q was taken by a move of colour m made from snapshot s
Taken(s, m, q, x) ==
  /\ x.t # "K"
  /\ Bin(captured, m) = Append(Bin(s.captured, m), UNI(x.c, x.t))
  /\ board[q.r][q.c] = NoPiece
        => /\ x.t = "P"
           /\ q.r = s.selected.r
           /\ abs(q.c - s.selected.c) = 1
           /\ board[q.r + forward(m)][q.c] = [t |-> "P", c |-> m, moved |-> TRUE]
           /\ s.board[q.r + forward(m)][q.c] = NoPiece

\* what the move of colour m committed from snapshot s did to board and bins
Accounted(s, m) ==
  /\ OnBoard(board, m) = OnBoard(s.board, m)
  /\ Cardinality(Gone(s.board, board, other(m))) <= 1
  /\ OnBoard(board, other(m)) + Cardinality(Gone(s.board, board, other(m)))
        = OnBoard(s.board, other(m))
  /\ Bin(captured, other(m)) = Bin(s.captured, other(m))
  /\ Gone(s.board, board, other(m)) = {} => Bin(captured, m) = Bin(s.captured, m)
  /\ \A q \in Gone(s.board, board, other(m)) : Taken(s, m, q, s.board[q.r][q.c])

C15_CaptureAccounting ==
  /\ OnBoard(board, "w") + OnBoard(board, "b")
        + Len(captured.byWhite) + Len(captured.byBlack) = 32
  /\ OnlyIcons(captured.byWhite, "b")
  /\ OnlyIcons(captured.byBlack, "w")
  /\ Len(history) > 0 => Accounted(Top(history), Top(history).turn)

\* White has captured en passant and Black has just taken the pawn back
C15_Witness ==
  /\ outcome = "commit"
  /\ captured.byWhite = << UNI("b", "P") >>
  /\ captured.byBlack = << UNI("w", "P") >>
  /\ Top(history).captured.byBlack = << >>
  /\ Gone(Top(history).board, board, "w") = {sq("f",6)}

(***************************************************************************)
(* C16. Legality probing has no net effect: in every reachable state, for  *)
(* every square, genLegal returns with board, turn, lastDouble, capture    *)
(* bins, selection, stored legal list and move log as they were before the *)
(* call, whatever moves it simulated; history and gameOver are written by  *)
(* neither genLegal nor the simulating applyMove.                          *)
(***************************************************************************)
C16_ProbingNoNetEffect ==
  \A r \in R, c \in R : afterGenLegal(Now, r, c) = Now

\* move m, simulated for the piece on (r,c), changes the globals
Simulated(r, c, m) ==
  applyMove(Now, [r |-> r, c |-> c], [r |-> m.r, c |-> m.c], m, TRUE) # Now

\* the moves just probed for the selected king include castling, which
\* changes the globals while simulated
C16_Witness ==
  /\ outcome = "select"
  /\ \E i \in DOMAIN legal :
        legal[i].castle # "-" /\ Simulated(selected.r, selected.c, legal[i])

(***************************************************************************)
(* C17. King preservation: in every reachable state the board holds        *)
(* exactly one white king and exactly one black king, kingPos finds both,  *)
(* and no king is in a capture bin.                                        *)
(***************************************************************************)
OneKing(clr) ==
  /\ Count(board, "K", clr) = 1
  /\ kingPos(board, clr) # NoSquare
  /\ board[kingPos(board, clr).r][kingPos(board, clr).c].t = "K"
  /\ board[kingPos(board, clr).r][kingPos(board, clr).c].c = clr
  /\ \A i \in DOMAIN Bin(captured, other(clr)) :
        Bin(captured, other(clr))[i] # UNI(clr, "K")

C17_KingPreservation == OneKing("w") /\ OneKing("b")

\* Black's king is attacked and a move that leaves it so has been refused
C17_Witness ==
  /\ outcome = "reject"
  /\ turn = "b"
  /\ ~KingSafe(board, "b")
  /\ turnEl = "Black to move - in check!"
  /\ Count(board, "K", "b") = 1

(***************************************************************************)
(* C18. Turn/history parity: in every reachable state White is to move     *)
(* exactly when the history holds an even number of snapshots. A step that *)
(* lengthens the history pushes one snapshot, of the session it started    *)
(* from, passes the turn, and moves a piece of the side that was to move   *)
(* while no piece of the other side changes square; a step that shortens   *)
(* it is a new game or pops one snapshot and gives the turn back; a step   *)
(* that keeps its length (selection, reselection, rejected click) changes  *)
(* neither turn nor board.                                                 *)
(***************************************************************************)
Pushed ==
  /\ Len(history') = Len(history) + 1
  /\ Pop(history') = history
  /\ Holds(Top(history'), board, turn, lastDouble, captured, movesEl)
  /\ turn' = other(turn)
  /\ Mover(Top(history')).c = turn
  /\ board'[Top(history').selected.r][Top(history').selected.c] = NoPiece
  /\ \A q \in Squares :
        board'[q.r][q.c].c = other(turn) => board'[q.r][q.c] = board[q.r][q.c]

Popped ==
  /\ history' = Pop(history)
  /\ turn' = Top(history).turn
  /\ turn' = other(turn)

ParityStep ==
  /\ Len(history') > Len(history) => Pushed
  /\ Len(history') < Len(history) => (Popped \/ newGame)
  /\ Len(history') = Len(history) => (turn' = turn /\ board' = board)

C18_TurnHistoryParity ==
  /\ [](turn \in {"w", "b"} /\ (turn = "w" <=> Len(history) % 2 = 0))
  /\ [][ParityStep]_vars

\* Black's first move has been undone: Black is to move again, one snapshot left
C18_Witness ==
  /\ outcome = "undo"
  /\ Len(history) = 1
  /\ turn = "b"

(***************************************************************************)
(* C19. No stale legal set: in every reachable state with a square         *)
(* selected, that square holds a piece of the side to move and the stored  *)
(* legal list is genLegal of that square on the board and lastDouble as    *)
(* they stand; after a committed move, an undo or a new game nothing is    *)
(* selected and the stored list is empty.                                  *)
(***************************************************************************)
Current(L) == selected # NoSquare => (Own(selected.r, selected.c) /\ legal = L)

C19_NoStaleLegalSet ==
  /\ Current(genLegal(Now, selected.r, selected.c))
  /\ outcome \in {"commit", "undo", "newGame"} => (selected = NoSquare /\ legal = << >>)

\* with a piece selected, a piece of the side to move has been clicked, some
\* moves into a game
C19_Witness ==
  /\ outcome = "reselect"
  /\ Len(history) > 0
  /\ selected # NoSquare
  /\ Len(legal) > 1

=============================================================================
